---- MODULE Spec2Model ----
(***************************************************************************)
(* TinyZipZap: three lossless byte codecs (RLE, Huffman, LZ77) behind one  *)
(* Compress / Decompress contract.  Bytes are the integers 0..255, byte    *)
(* slices are sequences, a nil error is the string "nil", and a nil or     *)
(* empty slice is the empty sequence.  Every loop of the source is a       *)
(* recursive operator over the loop's state; long loops are folded by      *)
(* halving the index range, which applies the same steps in the same order.*)
(***************************************************************************)
EXTENDS Integers, Sequences, FiniteSets, TLC

VARIABLES codec, data, blob, tampered, pc, result, err, grow, mpos, mres,
          stats, inst, calls

\* The state of the single caller, and the state of an instance that several
\* callers share: the fields of the instance and each caller's call.
callerVars ==
    <<codec, data, blob, tampered, pc, result, err, grow, mpos, mres, stats>>

sharedVars == <<inst, calls>>

vars == <<codec, data, blob, tampered, pc, result, err, grow, mpos, mres,
          stats, inst, calls>>

(***************************************************************************)
(* Bounds of the explored inputs.                                          *)
(***************************************************************************)
MaxLen == 7
MaxRaw == 5
LongRun == 300
MaxTamperLen == 24
MaxDeclaredLen == 600
MaxProbe == 600
MaxCalls == 2

(***************************************************************************)
(* Program constants.                                                      *)
(***************************************************************************)
ByteRange == 256
MaxRunCount == 255
defaultWindowSize == 4096
defaultBufferSize == 18
MinMatchLength == 3

NoError == "nil"

Min(a, b) == IF a < b THEN a ELSE b

Rep(b, n) == [i \in 1..n |-> b]

ToByte(n) == n % ByteRange

\* The first half of a loop is computed before the second half starts.
Done(x) == x = x

(***************************************************************************)
(* RLE: RLECompressor.Compress.  The loop state is the current byte, the   *)
(* run counter and the bytes written so far; i is the 1-based index of the *)
(* byte the iteration looks at.                                            *)
(***************************************************************************)
RLECompressStep_CapOffByOne(d, st, i) ==
    IF d[i] = st.currentByte /\ st.count <= MaxRunCount
    THEN [st EXCEPT !.count = @ + 1]
    ELSE [currentByte |-> d[i], count |-> 1,
          compressed |-> st.compressed \o <<st.currentByte, ToByte(st.count)>>]

RLECompressStep_EarlySplit(d, st, i) ==
    IF d[i] = st.currentByte /\ st.count < MaxRunCount - 1
    THEN [st EXCEPT !.count = @ + 1]
    ELSE [currentByte |-> d[i], count |-> 1,
          compressed |-> st.compressed \o <<st.currentByte, ToByte(st.count)>>]

RLECompressStep(d, st, i) ==
    IF d[i] = st.currentByte /\ st.count < MaxRunCount
    THEN [st EXCEPT !.count = @ + 1]
    ELSE [currentByte |-> d[i], count |-> 1,
          compressed |-> st.compressed \o <<st.currentByte, ToByte(st.count)>>]

RECURSIVE RLECompressLoop(_, _, _, _)
RLECompressLoop(d, st, lo, hi) ==
    IF lo > hi THEN st
    ELSE IF lo = hi THEN RLECompressStep(d, st, lo)
    ELSE LET mid == (lo + hi) \div 2
             s1  == RLECompressLoop(d, st, lo, mid)
         IN  IF Done(s1) THEN RLECompressLoop(d, s1, mid + 1, hi) ELSE s1

RLECompress(d) ==
    IF Len(d) = 0 THEN [out |-> <<>>, err |-> NoError]
    ELSE LET st == RLECompressLoop(d, [currentByte |-> d[1], count |-> 1,
                                       compressed |-> <<>>], 2, Len(d))
         IN  [out |-> st.compressed \o <<st.currentByte, ToByte(st.count)>>,
              err |-> NoError]

(***************************************************************************)
(* RLE: RLECompressor.Decompress.  k is the number of the pair (byte at    *)
(* 2k-1, count at 2k); an error ends the loop.                             *)
(***************************************************************************)
RLEDecompressStep_ZeroAccepted(d, st, k) ==
    IF st.err # NoError THEN st
    ELSE IF 2 * k > Len(d) THEN [st EXCEPT !.err = "RLE: incomplete data"]
    ELSE [st EXCEPT !.decompressed = @ \o Rep(d[2 * k - 1], d[2 * k])]

RLEDecompressStep(d, st, k) ==
    IF st.err # NoError THEN st
    ELSE IF 2 * k > Len(d) THEN [st EXCEPT !.err = "RLE: incomplete data"]
    ELSE IF d[2 * k] = 0 THEN [st EXCEPT !.err = "RLE: count is 0"]
    ELSE [st EXCEPT !.decompressed = @ \o Rep(d[2 * k - 1], d[2 * k])]

RECURSIVE RLEDecompressLoop(_, _, _, _)
RLEDecompressLoop(d, st, lo, hi) ==
    IF lo > hi THEN st
    ELSE IF lo = hi THEN RLEDecompressStep(d, st, lo)
    ELSE LET mid == (lo + hi) \div 2
             s1  == RLEDecompressLoop(d, st, lo, mid)
         IN  IF Done(s1) THEN RLEDecompressLoop(d, s1, mid + 1, hi) ELSE s1

RLEDecompress(d) ==
    IF Len(d) % 2 # 0 THEN [out |-> <<>>, err |-> "RLE: odd size"]
    ELSE LET st == RLEDecompressLoop(d, [decompressed |-> <<>>, err |-> NoError],
                                     1, (Len(d) + 1) \div 2)
         IN  IF st.err # NoError THEN [out |-> <<>>, err |-> st.err]
             ELSE [out |-> st.decompressed, err |-> NoError]

(***************************************************************************)
(* RLE: RLECompressor.Name and CompressWithStats, with CompressionStats    *)
(* and its CalculateRatio.  The float64 Ratio is the pair of the two sizes *)
(* it is the quotient of; the zero value is 0/1.                           *)
(***************************************************************************)
RLEName == "Run-Length Encoding (RLE)"

NoStats ==
    [OriginalSize |-> 0, CompressedSize |-> 0, Ratio |-> [num |-> 0, den |-> 1],
     Algorithm |-> ""]

CalculateRatio(s) ==
    IF s.OriginalSize > 0
    THEN [s EXCEPT !.Ratio = [num |-> s.CompressedSize, den |-> s.OriginalSize]]
    ELSE s

RLECompressWithStats_SizesSwapped(d) ==
    LET r == RLECompress(d)
    IN  IF r.err # NoError THEN [out |-> <<>>, stats |-> NoStats, err |-> r.err]
        ELSE [out   |-> r.out,
              stats |-> CalculateRatio([NoStats EXCEPT
                                           !.OriginalSize = Len(r.out),
                                           !.CompressedSize = Len(d),
                                           !.Algorithm = RLEName]),
              err   |-> NoError]

RLECompressWithStats(d) ==
    LET r == RLECompress(d)
    IN  IF r.err # NoError THEN [out |-> <<>>, stats |-> NoStats, err |-> r.err]
        ELSE [out   |-> r.out,
              stats |-> CalculateRatio([NoStats EXCEPT
                                           !.OriginalSize = Len(d),
                                           !.CompressedSize = Len(r.out),
                                           !.Algorithm = RLEName]),
              err   |-> NoError]

(***************************************************************************)
(* Huffman: Node, NodeHeap and the container/heap operations buildTree     *)
(* uses.  A *Node is a sequence holding zero (nil) or one node; heap       *)
(* indices are the 0-based indices of the source.                          *)
(***************************************************************************)
Nil == <<>>

Node(char, freq, left, right) ==
    [Char |-> char, Freq |-> freq, Left |-> left, Right |-> right]

IsLeaf(n) == n.Left = Nil /\ n.Right = Nil

Less_Reversed(h, i, j) == h[i + 1].Freq > h[j + 1].Freq

Less(h, i, j) == h[i + 1].Freq < h[j + 1].Freq

Swap(h, i, j) == [h EXCEPT ![i + 1] = h[j + 1], ![j + 1] = h[i + 1]]

RECURSIVE up(_, _)
up(h, j) ==
    LET i == IF j = 0 THEN 0 ELSE (j - 1) \div 2
    IN  IF i = j \/ ~Less(h, j, i) THEN h
        ELSE up(Swap(h, i, j), i)

RECURSIVE down(_, _, _)
down(h, i, n) ==
    LET j1 == 2 * i + 1
        j2 == j1 + 1
        j  == IF j2 < n /\ Less(h, j2, j1) THEN j2 ELSE j1
    IN  IF j1 >= n THEN h
        ELSE IF ~Less(h, j, i) THEN h
        ELSE down(Swap(h, i, j), j, n)

HeapPush(h, x) == up(Append(h, x), Len(h))

HeapPop(h) ==
    LET n  == Len(h) - 1
        h2 == down(Swap(h, 0, n), 0, n)
    IN  [node |-> h2[n + 1], heap |-> SubSeq(h2, 1, n)]

(***************************************************************************)
(* A frequency table (map[byte]int) is a function from the set of its keys.*)
(***************************************************************************)
EmptyMap == [b \in {} |-> 0]

buildFrequencyTable(d) ==
    [b \in {d[i] : i \in 1..Len(d)} |-> Cardinality({i \in 1..Len(d) : d[i] = b})]

SortedChars(freq) ==
    LET S == DOMAIN freq
    IN  [k \in 1..Cardinality(S) |->
            CHOOSE b \in S : Cardinality({c \in S : c < b}) = k - 1]

RECURSIVE PushLoop(_, _, _, _, _)
PushLoop(h, freq, chars, lo, hi) ==
    IF lo > hi THEN h
    ELSE IF lo = hi THEN HeapPush(h, Node(chars[lo], freq[chars[lo]], Nil, Nil))
    ELSE LET mid == (lo + hi) \div 2
             h1  == PushLoop(h, freq, chars, lo, mid)
         IN  IF Done(h1) THEN PushLoop(h1, freq, chars, mid + 1, hi) ELSE h1

MergeStep_FreqOfLeft(h) ==
    IF Len(h) <= 1 THEN h
    ELSE LET p1 == HeapPop(h)
             p2 == HeapPop(p1.heap)
         IN  HeapPush(p2.heap, Node(0, p1.node.Freq, <<p1.node>>, <<p2.node>>))

MergeStep(h) ==
    IF Len(h) <= 1 THEN h
    ELSE LET p1 == HeapPop(h)
             p2 == HeapPop(p1.heap)
         IN  HeapPush(p2.heap, Node(0, p1.node.Freq + p2.node.Freq,
                                    <<p1.node>>, <<p2.node>>))

RECURSIVE MergeLoop(_, _)
MergeLoop(h, k) ==
    IF k <= 0 THEN h
    ELSE IF k = 1 THEN MergeStep(h)
    ELSE LET h1 == MergeLoop(h, k \div 2)
         IN  IF Done(h1) THEN MergeLoop(h1, k - k \div 2) ELSE h1

buildTree(freq) ==
    IF Cardinality(DOMAIN freq) = 0 THEN Nil
    ELSE IF Cardinality(DOMAIN freq) = 1
    THEN LET char == CHOOSE c \in DOMAIN freq : TRUE
         IN  <<Node(char, freq[char], Nil, Nil)>>
    ELSE LET chars == SortedChars(freq)
             h0    == PushLoop(<<>>, freq, chars, 1, Len(chars))
             h1    == MergeLoop(h0, Len(h0) - 1)
         IN  <<HeapPop(h1).node>>

RECURSIVE buildCodes_Swapped(_, _)
buildCodes_Swapped(node, code) ==
    IF node = Nil THEN EmptyMap
    ELSE IF IsLeaf(node[1]) THEN (node[1].Char :> code)
    ELSE buildCodes_Swapped(node[1].Right, code \o <<0>>)
             @@ buildCodes_Swapped(node[1].Left, code \o <<1>>)

RECURSIVE buildCodes(_, _)
buildCodes(node, code) ==
    IF node = Nil THEN EmptyMap
    ELSE IF IsLeaf(node[1]) THEN (node[1].Char :> code)
    ELSE buildCodes(node[1].Right, code \o <<1>>)
             @@ buildCodes(node[1].Left, code \o <<0>>)

buildCodeTable(root) ==
    IF root = Nil THEN EmptyMap
    ELSE IF IsLeaf(root[1]) THEN (root[1].Char :> <<0>>)
    ELSE buildCodes(root, <<>>)

(***************************************************************************)
(* Huffman: Compressor.Compress.                                           *)
(***************************************************************************)
Pow2(k) == 2 ^ k

BigEndian4(f) ==
    <<ToByte(f \div Pow2(24)), ToByte(f \div Pow2(16)), ToByte(f \div Pow2(8)), ToByte(f)>>

RECURSIVE FreqEntries(_, _, _, _)
FreqEntries(freq, chars, lo, hi) ==
    IF lo > hi THEN <<>>
    ELSE IF lo = hi THEN <<chars[lo]>> \o BigEndian4(freq[chars[lo]])
    ELSE LET mid == (lo + hi) \div 2
         IN  FreqEntries(freq, chars, lo, mid) \o FreqEntries(freq, chars, mid + 1, hi)

SetBit(b, k) == IF (b \div Pow2(k)) % 2 = 1 THEN b ELSE b + Pow2(k)

PackBit_LsbFirst(st, bit) ==
    LET cur == IF bit = 1 THEN SetBit(st.currentByte, st.bitCount)
               ELSE st.currentByte
    IN  IF st.bitCount + 1 = 8
        THEN [bits |-> Append(st.bits, cur), bitCount |-> 0, currentByte |-> 0]
        ELSE [bits |-> st.bits, bitCount |-> st.bitCount + 1, currentByte |-> cur]

PackBit(st, bit) ==
    LET cur == IF bit = 1 THEN SetBit(st.currentByte, 7 - st.bitCount)
               ELSE st.currentByte
    IN  IF st.bitCount + 1 = 8
        THEN [bits |-> Append(st.bits, cur), bitCount |-> 0, currentByte |-> 0]
        ELSE [bits |-> st.bits, bitCount |-> st.bitCount + 1, currentByte |-> cur]

RECURSIVE PackCode(_, _, _)
PackCode(st, code, k) ==
    IF k > Len(code) THEN st
    ELSE PackCode(PackBit(st, code[k]), code, k + 1)

RECURSIVE EncodeLoop(_, _, _, _, _)
EncodeLoop(st, d, codes, lo, hi) ==
    IF lo > hi THEN st
    ELSE IF lo = hi THEN PackCode(st, codes[d[lo]], 1)
    ELSE LET mid == (lo + hi) \div 2
             s1  == EncodeLoop(st, d, codes, lo, mid)
         IN  IF Done(s1) THEN EncodeLoop(s1, d, codes, mid + 1, hi) ELSE s1

HuffmanCompress(d) ==
    IF Len(d) = 0 THEN [out |-> <<>>, err |-> NoError]
    ELSE LET freq == buildFrequencyTable(d)
             root == buildTree(freq)
         IN  IF root = Nil
             THEN [out |-> <<>>, err |-> "failed to build Huffman tree"]
             ELSE LET codes  == buildCodeTable(root)
                      chars  == SortedChars(freq)
                      header == <<ToByte(Cardinality(DOMAIN freq))>>
                                    \o FreqEntries(freq, chars, 1, Len(chars))
                      st     == EncodeLoop([bits |-> <<>>, bitCount |-> 0,
                                            currentByte |-> 0],
                                           d, codes, 1, Len(d))
                      bits   == IF st.bitCount > 0
                                THEN Append(st.bits, st.currentByte) ELSE st.bits
                      paddingBits == IF st.bitCount = 0 THEN 0
                                     ELSE ToByte(8 - st.bitCount)
                  IN  [out |-> header \o BigEndian4(Len(d)) \o <<paddingBits>> \o bits,
                       err |-> NoError]

(***************************************************************************)
(* Huffman: Compressor.Decompress.  offset is the 0-based offset of the    *)
(* source, so data[offset] is d[offset + 1].                               *)
(***************************************************************************)
ReadInt4(d, offset) ==
    d[offset + 1] * Pow2(24) + d[offset + 2] * Pow2(16)
        + d[offset + 3] * Pow2(8) + d[offset + 4]

ReadFreqStep(d, st) ==
    IF st.err # NoError THEN st
    ELSE IF st.offset + 4 >= Len(d)
    THEN [st EXCEPT !.err = "invalid compressed data: incomplete frequency table"]
    ELSE [offset |-> st.offset + 5,
          freq   |-> (d[st.offset + 1] :> ReadInt4(d, st.offset + 1)) @@ st.freq,
          err    |-> NoError]

RECURSIVE ReadFreqLoop(_, _, _)
ReadFreqLoop(d, st, k) ==
    IF k <= 0 THEN st
    ELSE IF k = 1 THEN ReadFreqStep(d, st)
    ELSE LET s1 == ReadFreqLoop(d, st, k \div 2)
         IN  IF Done(s1) THEN ReadFreqLoop(d, s1, k - k \div 2) ELSE s1

\* Lines 228-270: character count, frequency table, tree, length, padding.
HuffmanReadHeader(d) ==
    LET charCount == d[1]
        tab  == ReadFreqLoop(d, [offset |-> 1, freq |-> EmptyMap, err |-> NoError],
                             charCount)
        root == buildTree(tab.freq)
        fail(e) == [err |-> e, root |-> Nil, dataLen |-> 0, paddingBits |-> 0,
                    offset |-> 0]
    IN  IF 0 >= Len(d) THEN fail("invalid compressed data: missing character count")
        ELSE IF tab.err # NoError THEN fail(tab.err)
        ELSE IF root = Nil THEN fail("failed to rebuild Huffman tree")
        ELSE IF tab.offset + 4 >= Len(d)
        THEN fail("invalid compressed data: missing data length")
        \* offset += 4, then "offset >= len(data)": the same condition again
        ELSE IF tab.offset + 4 >= Len(d)
        THEN fail("invalid compressed data: missing padding bits")
        ELSE [err |-> NoError, root |-> root,
              dataLen |-> ReadInt4(d, tab.offset),
              paddingBits |-> d[tab.offset + 5], offset |-> tab.offset + 5]

\* One step of the walk: a nil child is a nil pointer dereference.
WalkBit(st, root, bit) ==
    LET next == IF bit = 1 THEN st.current.Right ELSE st.current.Left
    IN  IF next = Nil THEN [st EXCEPT !.err = "panic: nil pointer dereference"]
        ELSE IF IsLeaf(next[1])
        THEN [st EXCEPT !.result = Append(@, next[1].Char), !.current = root[1]]
        ELSE [st EXCEPT !.current = next[1]]

RECURSIVE DecodeBits(_, _, _, _, _)
DecodeBits(st, d, hdr, offset, i) ==
    IF st.err # NoError \/ i < 0 \/ Len(st.result) >= hdr.dataLen THEN st
    ELSE IF offset = Len(d) - 1 /\ i < hdr.paddingBits THEN st
    ELSE DecodeBits(WalkBit(st, hdr.root, (d[offset + 1] \div Pow2(i)) % 2),
                    d, hdr, offset, i - 1)

DecodeByte(st, d, hdr, offset) ==
    IF st.err # NoError \/ Len(st.result) >= hdr.dataLen THEN st
    ELSE DecodeBits(st, d, hdr, offset, 7)

RECURSIVE DecodeLoop(_, _, _, _, _)
DecodeLoop(st, d, hdr, lo, hi) ==
    IF lo > hi THEN st
    ELSE IF lo = hi THEN DecodeByte(st, d, hdr, lo)
    ELSE LET mid == (lo + hi) \div 2
             s1  == DecodeLoop(st, d, hdr, lo, mid)
         IN  IF Done(s1) THEN DecodeLoop(s1, d, hdr, mid + 1, hi) ELSE s1

\* Lines 272-308: the walk over the packed bits.
HuffmanDecodePayload(d, hdr) ==
    IF hdr.err # NoError THEN [out |-> <<>>, err |-> hdr.err]
    ELSE IF IsLeaf(hdr.root[1])
    THEN [out |-> Rep(hdr.root[1].Char, hdr.dataLen), err |-> NoError]
    ELSE LET st == DecodeLoop([result |-> <<>>, current |-> hdr.root[1],
                               err |-> NoError],
                              d, hdr, hdr.offset, Len(d) - 1)
         IN  IF st.err # NoError THEN [out |-> <<>>, err |-> st.err]
             ELSE [out |-> st.result, err |-> NoError]

HuffmanDecompress_NoEmptyCheck(d) == HuffmanDecodePayload(d, HuffmanReadHeader(d))

HuffmanDecompress(d) ==
    IF Len(d) = 0 THEN [out |-> <<>>, err |-> NoError]
    ELSE HuffmanDecodePayload(d, HuffmanReadHeader(d))

(***************************************************************************)
(* LZ77: Token, Matcher.  pos, start and i are the 0-based positions of    *)
(* the source, so data[pos] is d[pos + 1].                                 *)
(***************************************************************************)
Token(distance, length, literal) ==
    [Distance |-> distance, Length |-> length, Literal |-> literal]

IsLiteral(t) == t.Distance = 0

NewLiteralToken(literal) == Token(0, 0, literal)

NewMatchToken(distance, length, nextChar) == Token(distance, length, nextChar)

RECURSIVE calculateMatchLength(_, _, _, _, _)
calculateMatchLength(d, start, pos, maxLength, j) ==
    IF j < maxLength /\ start + j < pos /\ d[start + j + 1] = d[pos + j + 1]
    THEN calculateMatchLength(d, start, pos, maxLength, j + 1)
    ELSE j

MatchStep_MinTwo(d, pos, maxLookahead, st, i) ==
    LET matchLength == calculateMatchLength(d, i, pos, maxLookahead, 0)
    IN  IF matchLength > st.maxLength /\ matchLength >= MinMatchLength - 1
        THEN [maxLength |-> matchLength, bestDistance |-> pos - i]
        ELSE st

MatchStep_NewestWins(d, pos, maxLookahead, st, i) ==
    LET matchLength == calculateMatchLength(d, i, pos, maxLookahead, 0)
    IN  IF matchLength >= st.maxLength /\ matchLength >= MinMatchLength
        THEN [maxLength |-> matchLength, bestDistance |-> pos - i]
        ELSE st

MatchStep(d, pos, maxLookahead, st, i) ==
    LET matchLength == calculateMatchLength(d, i, pos, maxLookahead, 0)
    IN  IF matchLength > st.maxLength /\ matchLength >= MinMatchLength
        THEN [maxLength |-> matchLength, bestDistance |-> pos - i]
        ELSE st

RECURSIVE MatchLoop(_, _, _, _, _, _)
MatchLoop(d, pos, maxLookahead, st, lo, hi) ==
    IF lo > hi THEN st
    ELSE IF lo = hi THEN MatchStep(d, pos, maxLookahead, st, lo)
    ELSE LET mid == (lo + hi) \div 2
             s1  == MatchLoop(d, pos, maxLookahead, st, lo, mid)
         IN  IF Done(s1) THEN MatchLoop(d, pos, maxLookahead, s1, mid + 1, hi) ELSE s1

\* A Matcher is its two fields; m is the receiver of the method.
NewMatcher(windowSize, bufferSize) ==
    [windowSize |-> windowSize, bufferSize |-> bufferSize]

MatcherFindLongestMatch(m, d, pos) ==
    IF pos = 0 THEN [Distance |-> 0, Length |-> 0]
    ELSE LET start == IF pos - m.windowSize < 0 THEN 0
                      ELSE pos - m.windowSize
             maxLookahead == Min(Len(d) - pos, m.bufferSize)
             st == MatchLoop(d, pos, maxLookahead,
                             [maxLength |-> 0, bestDistance |-> 0], start, pos - 1)
         IN  [Distance |-> st.bestDistance, Length |-> st.maxLength]

\* The fields of the receiver when FindLongestMatch returns: the method
\* assigns to locals only.
MatcherAfterFind_StoresLookahead(m, d, pos) ==
    [m EXCEPT !.bufferSize = Min(Len(d) - pos, m.bufferSize)]

MatcherAfterFind(m, d, pos) == m

\* Compressor.FindLongestMatch on the instance NewCompressor returns.
FindLongestMatch(d, pos) ==
    MatcherFindLongestMatch(NewMatcher(defaultWindowSize, defaultBufferSize), d, pos)

(***************************************************************************)
(* LZ77: Encoder.Encode, getNextChar, TokensToBytes.                       *)
(***************************************************************************)
getNextChar(d, pos) == IF pos < Len(d) THEN d[pos + 1] ELSE 0

EncoderStep_NoLiteralAdvance(m, d, st) ==
    IF st.pos >= Len(d) THEN st
    ELSE LET match == MatcherFindLongestMatch(m, d, st.pos)
         IN  IF match.Length > 0
             THEN [tokens |-> Append(st.tokens,
                                     NewMatchToken(match.Distance % Pow2(16),
                                                   ToByte(match.Length),
                                                   getNextChar(d, st.pos + match.Length))),
                   pos |-> st.pos + match.Length]
             ELSE [tokens |-> Append(st.tokens, NewLiteralToken(d[st.pos + 1])),
                   pos |-> st.pos + 1]

\* One iteration of Encode's loop on the encoder whose matcher is m.
EncoderStep(m, d, st) ==
    IF st.pos >= Len(d) THEN st
    ELSE LET match == MatcherFindLongestMatch(m, d, st.pos)
         IN  IF match.Length > 0
             THEN [tokens |-> Append(st.tokens,
                                     NewMatchToken(match.Distance % Pow2(16),
                                                   ToByte(match.Length),
                                                   getNextChar(d, st.pos + match.Length))),
                   pos |-> st.pos + match.Length + 1]
             ELSE [tokens |-> Append(st.tokens, NewLiteralToken(d[st.pos + 1])),
                   pos |-> st.pos + 1]

EncodeStep(d, st) ==
    EncoderStep(NewMatcher(defaultWindowSize, defaultBufferSize), d, st)

RECURSIVE EncodeIter(_, _, _)
EncodeIter(d, st, k) ==
    IF k <= 0 THEN st
    ELSE IF k = 1 THEN EncodeStep(d, st)
    ELSE LET s1 == EncodeIter(d, st, k \div 2)
         IN  IF Done(s1) THEN EncodeIter(d, s1, k - k \div 2) ELSE s1

Encode(d) ==
    IF Len(d) = 0 THEN <<>>
    ELSE EncodeIter(d, [tokens |-> <<>>, pos |-> 0], Len(d)).tokens

TokenBytes(t) ==
    IF IsLiteral(t) THEN <<0, t.Literal>>
    ELSE <<1, t.Distance \div Pow2(8), t.Distance % Pow2(8), t.Length, t.Literal>>

RECURSIVE TokensToBytesLoop(_, _, _)
TokensToBytesLoop(tokens, lo, hi) ==
    IF lo > hi THEN <<>>
    ELSE IF lo = hi THEN TokenBytes(tokens[lo])
    ELSE LET mid == (lo + hi) \div 2
         IN  TokensToBytesLoop(tokens, lo, mid) \o TokensToBytesLoop(tokens, mid + 1, hi)

TokensToBytes(tokens) == TokensToBytesLoop(tokens, 1, Len(tokens))

LZ77Compress(d) == [out |-> TokensToBytes(Encode(d)), err |-> NoError]

(***************************************************************************)
(* LZ77: Decoder.Decode.                                                   *)
(***************************************************************************)
DecodeStep(d, st) ==
    IF st.err # NoError \/ st.pos >= Len(d) THEN st
    ELSE LET flag == d[st.pos + 1]
             pos  == st.pos + 1
         IN  IF flag = 0
             THEN IF pos >= Len(d)
                  THEN [st EXCEPT !.err = "invalid compressed data: missing literal"]
                  ELSE [tokens |-> Append(st.tokens, NewLiteralToken(d[pos + 1])),
                        pos |-> pos + 1, err |-> NoError]
             ELSE IF pos + 4 > Len(d)
                  THEN [st EXCEPT !.err = "invalid compressed data: incomplete match token"]
                  ELSE [tokens |-> Append(st.tokens,
                                          NewMatchToken(d[pos + 1] * Pow2(8) + d[pos + 2],
                                                        d[pos + 3], d[pos + 4])),
                        pos |-> pos + 4, err |-> NoError]

RECURSIVE DecodeIter(_, _, _)
DecodeIter(d, st, k) ==
    IF k <= 0 THEN st
    ELSE IF k = 1 THEN DecodeStep(d, st)
    ELSE LET s1 == DecodeIter(d, st, k \div 2)
         IN  IF Done(s1) THEN DecodeIter(d, s1, k - k \div 2) ELSE s1

Decode(d) ==
    IF Len(d) = 0 THEN [tokens |-> <<>>, err |-> NoError]
    ELSE LET st == DecodeIter(d, [tokens |-> <<>>, pos |-> 0, err |-> NoError], Len(d))
         IN  IF st.err # NoError THEN [tokens |-> <<>>, err |-> st.err]
             ELSE [tokens |-> st.tokens, err |-> NoError]

(***************************************************************************)
(* LZ77: Decoder.TokensToData and copyMatch.  The slice is its bytes and   *)
(* its capacity.  The language leaves the capacity append allocates open:  *)
(* g names the growth rule of the build, "exact" (just enough room) or     *)
(* "gc" (the gc runtime's rule for appending one byte: 8, then doubling    *)
(* below 256 elements, then growing by a quarter plus 192).                *)
(***************************************************************************)
Growth == {"exact", "gc"}

GrowCap(g, old, needed) ==
    IF g = "exact" THEN needed
    ELSE IF old = 0 THEN 8
    ELSE IF old < 256 THEN 2 * old
    ELSE old + (old + 768) \div 4

AppendByte(st, b, g) ==
    [st EXCEPT !.result = Append(@, b),
               !.cap = IF Len(st.result) + 1 > @
                       THEN GrowCap(g, @, Len(st.result) + 1) ELSE @]

CopyStep(st, start, i, g) ==
    IF st.err # NoError THEN st
    ELSE IF start + i >= Len(st.result)
    THEN [st EXCEPT !.err = "invalid match: trying to copy from future position"]
    ELSE IF start + i < 0
    THEN [st EXCEPT !.err = "panic: index out of range"]
    ELSE AppendByte(st, st.result[start + i + 1], g)

RECURSIVE CopyLoop(_, _, _, _, _)
CopyLoop(st, start, lo, hi, g) ==
    IF lo > hi THEN st
    ELSE IF lo = hi THEN CopyStep(st, start, lo, g)
    ELSE LET mid == (lo + hi) \div 2
             s1  == CopyLoop(st, start, lo, mid, g)
         IN  IF Done(s1) THEN CopyLoop(s1, start, mid + 1, hi, g) ELSE s1

\* A copy of the whole range at once: bytes past the end of the slice as it
\* was when the copy began read as 0.
copyMatch_BulkCopy(st, distance, length, g) ==
    LET n   == Len(st.result)
        src == [i \in 1..length |->
                   IF n - distance + i <= n THEN st.result[n - distance + i] ELSE 0]
    IN  [st EXCEPT !.result = @ \o src,
                   !.cap = IF n + length > @ THEN GrowCap(g, @, n + length) ELSE @]

copyMatch(st, distance, length, g) ==
    CopyLoop(st, Len(st.result) - distance, 0, length - 1, g)

TokenStep_NoDistanceCheck(st, token, g) ==
    IF st.err # NoError THEN st
    ELSE IF IsLiteral(token) THEN AppendByte(st, token.Literal, g)
    ELSE LET copied == copyMatch(st, token.Distance, token.Length, g)
         IN  IF copied.err # NoError THEN copied
             ELSE IF token.Literal # 0 \/ Len(copied.result) < copied.cap
             THEN AppendByte(copied, token.Literal, g)
             ELSE copied

TokenStep(st, token, g) ==
    IF st.err # NoError THEN st
    ELSE IF IsLiteral(token) THEN AppendByte(st, token.Literal, g)
    ELSE IF token.Distance > Len(st.result)
    THEN [st EXCEPT !.err = "invalid distance"]
    ELSE LET copied == copyMatch(st, token.Distance, token.Length, g)
         IN  IF copied.err # NoError THEN copied
             ELSE IF token.Literal # 0 \/ Len(copied.result) < copied.cap
             THEN AppendByte(copied, token.Literal, g)
             ELSE copied

RECURSIVE TokenLoop(_, _, _, _, _)
TokenLoop(st, tokens, lo, hi, g) ==
    IF lo > hi THEN st
    ELSE IF lo = hi THEN TokenStep(st, tokens[lo], g)
    ELSE LET mid == (lo + hi) \div 2
             s1  == TokenLoop(st, tokens, lo, mid, g)
         IN  IF Done(s1) THEN TokenLoop(s1, tokens, mid + 1, hi, g) ELSE s1

TokensToData(tokens, g) ==
    LET st == TokenLoop([result |-> <<>>, cap |-> 0, err |-> NoError],
                        tokens, 1, Len(tokens), g)
    IN  IF st.err # NoError THEN [out |-> <<>>, err |-> st.err]
        ELSE [out |-> st.result, err |-> NoError]

LZ77Decompress(d, g) ==
    LET dec == Decode(d)
    IN  IF dec.err # NoError THEN [out |-> <<>>, err |-> dec.err]
        ELSE TokensToData(dec.tokens, g)

(***************************************************************************)
(* The callers: a caller picks a codec and a byte sequence, compresses it, *)
(* possibly hands on a damaged copy (cut short, or one byte replaced), and *)
(* decompresses what it holds; or it starts from bytes of its own.         *)
(***************************************************************************)
Codecs == {"RLE", "Huffman", "LZ77"}

SeqsUpTo(S, n) == UNION {[1..k -> S] : k \in 0..n}

InputBytes == {0, 97}

RawBytes == {0, 1, 3, 255}

PokeBytes == {0, 2, 255}

abcabcabc == <<97, 98, 99, 97, 98, 99, 97, 98, 99>>

abcdefab == <<97, 98, 99, 100, 101, 102, 97, 98>>

abcdefabc == <<97, 98, 99, 100, 101, 102, 97, 98, 99>>

skewed == Rep(97, 5) \o Rep(98, 4) \o Rep(99, 5) \o Rep(100, 5)

binaryData == <<0, 1, 2, 3, 0, 1, 2, 3, 255, 254>>

tenA == Rep(97, 10)

alphabet == [i \in 1..26 |-> 96 + i]

AllBytes == [i \in 1..ByteRange |-> i - 1]

SpecialInputs ==
    {abcabcabc, abcdefab, abcdefabc, skewed, binaryData, tenA, alphabet, AllBytes,
     Rep(97, LongRun), Rep(0, MaxRunCount), Rep(0, MaxRunCount + 1),
     Rep(98, 2 * MaxRunCount + 1), Rep(97, MaxRunCount) \o <<97, 98, 98>>}

\* Inputs longer than the matcher's window: "\x01\x02\x03", a filler that
\* never holds these bytes and repeats with a period one longer than the
\* lookahead buffer, and "\x01\x02\x03" again, the second copy starting at
\* position windowSize (the first is the oldest byte of its window) or at
\* windowSize + 1 (the first has left its window).
Filler(n) == [i \in 1..n |-> 10 + ((i - 1) % (defaultBufferSize + 1))]

windowEdge == <<1, 2, 3>> \o Filler(defaultWindowSize - 3) \o <<1, 2, 3>>

windowPast == <<1, 2, 3>> \o Filler(defaultWindowSize - 2) \o <<1, 2, 3>>

WindowInputs == {windowEdge, windowPast}

Inputs(c) ==
    SeqsUpTo(InputBytes, MaxLen) \cup SpecialInputs
        \cup (IF c = "LZ77" THEN WindowInputs ELSE {})

\* The positions the matcher is asked about: every position of an input of
\* up to MaxProbe bytes, the first MaxProbe and the last MaxLen of a longer one.
MatchPositions(d) ==
    {p \in 0..Len(d) : p <= MaxProbe \/ p >= Len(d) - MaxLen}

RawBlobs == SeqsUpTo(RawBytes, MaxRaw)

NoMatch == [Distance |-> 0, Length |-> 0]

(***************************************************************************)
(* An instance and the callers that share it.  The fields of an instance   *)
(* are those of its type: the RLE and Huffman compressors are empty        *)
(* structs, the LZ77 compressor reaches the two fields of its matcher      *)
(* through its encoder; its decoder is an empty struct.                    *)
(***************************************************************************)
NewCompressor(c) ==
    IF c = "LZ77" THEN NewMatcher(defaultWindowSize, defaultBufferSize)
    ELSE Nil

Callers == {"a", "b"}

Ops == {"Compress", "Decompress"}

Idle(n) ==
    [pc |-> "idle", op |-> "none", buf |-> <<>>, given |-> <<>>, out |-> <<>>,
     err |-> NoError, tokens |-> <<>>, pos |-> 0, n |-> n]

\* A call on a fresh instance: the result of NewCompressor and one call.
FreshCall(c, op, d, g) ==
    IF op = "Compress"
    THEN IF c = "RLE" THEN RLECompress(d)
         ELSE IF c = "Huffman" THEN HuffmanCompress(d)
         ELSE LZ77Compress(d)
    ELSE IF c = "RLE" THEN RLEDecompress(d)
         ELSE IF c = "Huffman" THEN HuffmanDecompress(d)
         ELSE LZ77Decompress(d, g)

SharedInputs == {<<>>, <<97>>, Rep(97, MaxLen), abcabcabc}

SharedBlobs(c) ==
    {FreshCall(c, "Compress", d, "none").out : d \in SharedInputs} \cup {<<0>>, <<1>>}

Init ==
    /\ codec \in Codecs
    /\ inst = NewCompressor(codec)
    /\ calls = [c \in Callers |-> Idle(0)]
    /\ \/ pc = "input" /\ data \in Inputs(codec) /\ blob = <<>> /\ tampered = FALSE
       \/ pc = "blob" /\ data = <<>> /\ blob \in RawBlobs /\ tampered = TRUE
    /\ result = <<>>
    /\ err = NoError
    /\ grow = "none"
    /\ mpos = 0
    /\ mres = NoMatch
    /\ stats = NoStats

Compressed(r) ==
    /\ pc = "input"
    /\ blob' = r.out
    /\ err' = r.err
    /\ pc' = "blob"
    /\ UNCHANGED <<codec, data, tampered, result, grow, mpos, mres, stats>>
    /\ UNCHANGED sharedVars

Decompressed(r, g) ==
    /\ pc = "blob"
    /\ result' = r.out
    /\ err' = r.err
    /\ grow' = g
    /\ pc' = "done"
    /\ UNCHANGED <<codec, data, blob, tampered, mpos, mres, stats>>
    /\ UNCHANGED sharedVars

CallRLECompress == codec = "RLE" /\ Compressed(RLECompress(data))

CallRLECompressWithStats ==
    /\ codec = "RLE"
    /\ pc = "input"
    /\ LET r == RLECompressWithStats(data)
       IN  /\ blob' = r.out
           /\ stats' = r.stats
           /\ err' = r.err
    /\ pc' = "blob"
    /\ UNCHANGED <<codec, data, tampered, result, grow, mpos, mres>>
    /\ UNCHANGED sharedVars

CallHuffmanCompress == codec = "Huffman" /\ Compressed(HuffmanCompress(data))

CallLZ77Compress == codec = "LZ77" /\ Compressed(LZ77Compress(data))

CallRLEDecompress == codec = "RLE" /\ Decompressed(RLEDecompress(blob), "none")

\* The 4-byte integers of a header start at fixed offsets once the count byte
\* is known.  HeaderFits holds when the frequencies and their sum stay below
\* 2^31, the range of the arithmetic used here (the source has 64-bit ints).
RECURSIVE SumHigh(_, _, _)
SumHigh(d, lo, hi) ==
    IF lo > hi THEN 0
    ELSE IF lo = hi THEN (IF 5 * lo + 3 <= Len(d) THEN d[5 * lo + 3] + 1 ELSE 0)
    ELSE LET mid == (lo + hi) \div 2
         IN  SumHigh(d, lo, mid) + SumHigh(d, mid + 1, hi)

HeaderFits(d) ==
    IF Len(d) = 0 THEN TRUE
    ELSE /\ SumHigh(d, 0, Min(d[1], Len(d) \div 5) - 1) < 128
         /\ 5 * d[1] + 2 <= Len(d) => d[5 * d[1] + 2] < 128

\* The declared length is capped: a one-leaf tree repeats its byte that often.
CallHuffmanDecompress ==
    /\ codec = "Huffman"
    /\ pc = "blob"
    /\ HeaderFits(blob)
    /\ IF Len(blob) = 0 THEN TRUE
       ELSE LET hdr == HuffmanReadHeader(blob)
            IN  IF hdr.err # NoError THEN TRUE
                ELSE hdr.dataLen <= MaxDeclaredLen
    /\ Decompressed(HuffmanDecompress(blob), "none")

CallLZ77Decompress ==
    /\ codec = "LZ77"
    /\ pc = "blob"
    /\ \E g \in Growth : Decompressed(LZ77Decompress(blob, g), g)

CallFindLongestMatch ==
    /\ codec = "LZ77"
    /\ pc = "input"
    /\ \E pos \in MatchPositions(data) :
          /\ mpos' = pos
          /\ mres' = FindLongestMatch(data, pos)
    /\ pc' = "matched"
    /\ UNCHANGED <<codec, data, blob, tampered, result, err, grow, stats>>
    /\ UNCHANGED sharedVars

Truncate ==
    /\ pc = "blob"
    /\ ~tampered
    /\ Len(blob) <= MaxTamperLen
    /\ \E k \in 0..(Len(blob) - 1) : blob' = SubSeq(blob, 1, k)
    /\ tampered' = TRUE
    /\ UNCHANGED <<codec, data, pc, result, err, grow, mpos, mres, stats>>
    /\ UNCHANGED sharedVars

Poke ==
    /\ pc = "blob"
    /\ ~tampered
    /\ Len(blob) <= MaxTamperLen
    /\ \E i \in 1..Len(blob) : \E v \in PokeBytes :
          /\ blob[i] # v
          /\ blob' = [blob EXCEPT ![i] = v]
    /\ tampered' = TRUE
    /\ UNCHANGED <<codec, data, pc, result, err, grow, mpos, mres, stats>>
    /\ UNCHANGED sharedVars

Next ==
    \/ CallRLECompress
    \/ CallRLECompressWithStats
    \/ CallHuffmanCompress
    \/ CallLZ77Compress
    \/ CallRLEDecompress
    \/ CallHuffmanDecompress
    \/ CallLZ77Decompress
    \/ CallFindLongestMatch
    \/ Truncate
    \/ Poke

Spec == Init /\ [][Next]_vars

(***************************************************************************)
(* Callers sharing one instance.  Each caller makes up to MaxCalls calls,  *)
(* one after the other, each with buffers of its own; the calls of         *)
(* different callers interleave.  A call is a step of its own, except that *)
(* LZ77 Compress takes one step for each iteration of Encode's loop, the   *)
(* place where the fields of the instance are read.                        *)
(***************************************************************************)
SharedInit ==
    /\ codec \in Codecs
    /\ inst = NewCompressor(codec)
    /\ calls = [c \in Callers |-> Idle(0)]
    /\ grow \in (IF codec = "LZ77" THEN Growth ELSE {"none"})
    /\ data = <<>>
    /\ blob = <<>>
    /\ tampered = FALSE
    /\ pc = "shared"
    /\ result = <<>>
    /\ err = NoError
    /\ mpos = 0
    /\ mres = NoMatch
    /\ stats = NoStats

Begin(c) ==
    /\ calls[c].pc = "idle"
    /\ calls[c].n < MaxCalls
    /\ \E op \in Ops :
          \E d \in (IF op = "Compress" THEN SharedInputs ELSE SharedBlobs(codec)) :
             calls' = [calls EXCEPT ![c] = [@ EXCEPT !.pc = "running", !.op = op,
                                                     !.buf = d, !.given = d]]
    /\ UNCHANGED inst
    /\ UNCHANGED callerVars

EncodeOne(c) ==
    /\ codec = "LZ77"
    /\ calls[c].pc = "running"
    /\ calls[c].op = "Compress"
    /\ calls[c].pos < Len(calls[c].buf)
    /\ LET st == EncoderStep(inst, calls[c].buf,
                             [tokens |-> calls[c].tokens, pos |-> calls[c].pos])
       IN  calls' = [calls EXCEPT ![c] = [@ EXCEPT !.tokens = st.tokens,
                                                   !.pos = st.pos]]
    /\ inst' = MatcherAfterFind(inst, calls[c].buf, calls[c].pos)
    /\ UNCHANGED callerVars

Return(c) ==
    /\ calls[c].pc = "running"
    /\ IF codec = "LZ77" /\ calls[c].op = "Compress"
       THEN /\ calls[c].pos >= Len(calls[c].buf)
            /\ calls' = [calls EXCEPT ![c] =
                            [@ EXCEPT !.pc = "returned",
                                      !.out = TokensToBytes(calls[c].tokens),
                                      !.err = NoError]]
       ELSE LET r == FreshCall(codec, calls[c].op, calls[c].buf, grow)
            IN  calls' = [calls EXCEPT ![c] =
                            [@ EXCEPT !.pc = "returned", !.out = r.out,
                                      !.err = r.err]]
    /\ UNCHANGED inst
    /\ UNCHANGED callerVars

Reuse(c) ==
    /\ calls[c].pc = "returned"
    /\ calls' = [calls EXCEPT ![c] = Idle(calls[c].n + 1)]
    /\ UNCHANGED inst
    /\ UNCHANGED callerVars

SharedNext ==
    \E c \in Callers :
       \/ Begin(c)
       \/ EncodeOne(c)
       \/ Return(c)
       \/ Reuse(c)

SharedSpec == SharedInit /\ [][SharedNext]_vars

(***************************************************************************)
(* Properties.                                                             *)
(***************************************************************************)
RoundTripDone(c) == codec = c /\ pc = "done" /\ ~tampered

Panics == {"panic: nil pointer dereference", "panic: index out of range"}

\* C1: LZ77 round trip: decompressing what Compress returned for data gives
\* back exactly data, with no error.
C1_LZ77RoundTrip ==
    RoundTripDone("LZ77") => (err = NoError /\ result = data)

\* C2: Huffman round trip: decompressing what Compress returned for data
\* gives back exactly data, with no error, up to 256 distinct byte values.
C2_HuffmanRoundTrip ==
    RoundTripDone("Huffman") => (err = NoError /\ result = data)

\* C3: RLE round trip: decompressing what Compress returned for data gives
\* back exactly data, with no error, runs longer than 255 included.
C3_RLERoundTrip ==
    RoundTripDone("RLE") => (err = NoError /\ result = data)

C3_Witness ==
    /\ RoundTripDone("RLE")
    /\ Len(data) > MaxRunCount
    /\ Len(blob) > 2
    /\ result = data

\* C4: for each codec, Compress of the empty input returns an empty output
\* with no error, and Decompress of the empty input returns an empty output
\* with no error.
C4_EmptyInput ==
    /\ (pc = "blob" /\ ~tampered /\ data = <<>>) => (blob = <<>> /\ err = NoError)
    /\ (pc = "done" /\ blob = <<>>) => (result = <<>> /\ err = NoError)

C4_Witness ==
    /\ pc = "done"
    /\ ~tampered
    /\ data = <<>>
    /\ blob = <<>>
    /\ result = <<>>
    /\ err = NoError

\* C5: every successful Huffman Decompress of a non-empty input returns
\* exactly as many bytes as the original length its header records.
C5_NoSilentTruncation ==
    (codec = "Huffman" /\ pc = "done" /\ Len(blob) > 0 /\ err = NoError)
        => Len(result) = ReadInt4(blob, 1 + 5 * blob[1])

\* C6: Huffman Decompress of a non-empty input names the missing field: a
\* short frequency table, a missing 4-byte length, a length with no padding
\* byte after it and an empty frequency table each give their own error, and
\* no bytes are returned.
C6_DistinctErrors ==
    (codec = "Huffman" /\ pc = "done" /\ Len(blob) > 0) =>
        LET n    == blob[1]
            tab  == 1 + 5 * n
        IN  /\ n = 0 => err = "failed to rebuild Huffman tree"
            /\ (n >= 1 /\ Len(blob) < tab)
                  => err = "invalid compressed data: incomplete frequency table"
            /\ (n >= 1 /\ Len(blob) >= tab /\ Len(blob) < tab + 4)
                  => err = "invalid compressed data: missing data length"
            /\ (n >= 1 /\ Len(blob) = tab + 4)
                  => err = "invalid compressed data: missing padding bits"
            /\ (n = 0 \/ Len(blob) <= tab + 4) => result = <<>>

\* C7: the framing of an LZ77 stream read token by token: a flag 0 needs one
\* more byte, any other flag needs four; produced counts at most the bytes
\* decoded so far (one per literal, length + 1 per match).
LZ77FaultStep(d, st) ==
    IF st.fault # "none" \/ st.pos >= Len(d) THEN st
    ELSE IF d[st.pos + 1] = 0
    THEN IF st.pos + 2 > Len(d) THEN [st EXCEPT !.fault = "literal cut"]
         ELSE [st EXCEPT !.pos = @ + 2, !.produced = @ + 1]
    ELSE IF st.pos + 5 > Len(d) THEN [st EXCEPT !.fault = "match cut"]
    ELSE LET distance == d[st.pos + 2] * 256 + d[st.pos + 3]
         IN  IF distance > st.produced THEN [st EXCEPT !.fault = "distance"]
             ELSE [st EXCEPT !.pos = @ + 5,
                             !.produced = @ + (IF distance = 0 THEN 1
                                               ELSE d[st.pos + 4] + 1)]

RECURSIVE LZ77FaultIter(_, _, _)
LZ77FaultIter(d, st, k) ==
    IF k <= 0 THEN st
    ELSE IF k = 1 THEN LZ77FaultStep(d, st)
    ELSE LET s1 == LZ77FaultIter(d, st, k \div 2)
         IN  IF Done(s1) THEN LZ77FaultIter(d, s1, k - k \div 2) ELSE s1

LZ77Fault(d) ==
    LZ77FaultIter(d, [pos |-> 0, produced |-> 0, fault |-> "none"], Len(d)).fault

\* C7: LZ77 Decompress returns an error and no output when a match token's
\* distance exceeds the bytes decoded before it, when a match token is cut
\* short and when a literal token is cut short; it never panics.
C7_LZ77Malformed ==
    (codec = "LZ77" /\ pc = "done") =>
        /\ err \notin Panics
        /\ err # NoError => result = <<>>
        /\ LZ77Fault(blob) # "none" => (err # NoError /\ result = <<>>)

C7_Witness ==
    /\ codec = "LZ77"
    /\ pc = "done"
    /\ LZ77Fault(blob) = "distance"
    /\ Len(blob) > 5
    /\ err = "invalid distance"
    /\ result = <<>>

\* C8: RLE Decompress fails with no output for every odd-length input and for
\* every even-length input holding a pair with count 0, wherever the pair
\* sits; every even-length input whose counts are all in 1..255 decodes.
C8_RLEMalformed ==
    (codec = "RLE" /\ pc = "done") =>
        LET pairs == 1..(Len(blob) \div 2)
        IN  /\ Len(blob) % 2 = 1 => (err # NoError /\ result = <<>>)
            /\ (Len(blob) % 2 = 0 /\ \E k \in pairs : blob[2 * k] = 0)
                  => (err # NoError /\ result = <<>>)
            /\ (Len(blob) % 2 = 0 /\ \A k \in pairs : blob[2 * k] \in 1..255)
                  => err = NoError

C8_Witness ==
    /\ codec = "RLE"
    /\ pc = "done"
    /\ Len(blob) = 4
    /\ blob[2] # 0
    /\ blob[4] = 0
    /\ err # NoError
    /\ result = <<>>

\* C9: the pairs the maximal runs of the input give when each run of n bytes
\* is split at 255: n \div 255 pairs (b, 255), then (b, n % 255) if positive.
RunLength(d, s) ==
    LET later == {t \in (s + 1)..Len(d) : d[t] # d[s]}
    IN  IF later = {} THEN Len(d) + 1 - s
        ELSE (CHOOSE t \in later : \A u \in later : t <= u) - s

RunPairs(b, n) ==
    [j \in 1..(2 * ((n + 254) \div 255)) |->
        IF j % 2 = 1 THEN b
        ELSE IF j \div 2 <= n \div 255 THEN 255 ELSE n % 255]

RunStarts(d) ==
    LET S == {i \in 1..Len(d) : i = 1 \/ d[i] # d[i - 1]}
    IN  [k \in 1..Cardinality(S) |->
            CHOOSE i \in S : Cardinality({j \in S : j < i}) = k - 1]

RECURSIVE ExpectedRuns(_, _, _, _)
ExpectedRuns(d, starts, lo, hi) ==
    IF lo > hi THEN <<>>
    ELSE IF lo = hi THEN RunPairs(d[starts[lo]], RunLength(d, starts[lo]))
    ELSE LET mid == (lo + hi) \div 2
         IN  ExpectedRuns(d, starts, lo, mid) \o ExpectedRuns(d, starts, mid + 1, hi)

ExpectedRLE(d) == ExpectedRuns(d, RunStarts(d), 1, Len(RunStarts(d)))

\* C9: RLE Compress emits exactly the maximal runs of the input split at the
\* 255 cap: counts are in 1..255, two adjacent pairs carry the same byte only
\* when the first has count 255, and 300 equal bytes give (b,255),(b,45).
C9_RLERuns ==
    (codec = "RLE" /\ pc = "blob" /\ ~tampered) =>
        LET pairs == 1..(Len(blob) \div 2)
        IN  /\ Len(blob) % 2 = 0
            /\ \A k \in pairs : blob[2 * k] \in 1..255
            /\ \A k \in pairs : (k + 1 \in pairs /\ blob[2 * k - 1] = blob[2 * k + 1])
                                    => blob[2 * k] = 255
            /\ blob = ExpectedRLE(data)
            /\ data = Rep(97, 300) => blob = <<97, 255, 97, 45>>

C9_Witness ==
    /\ codec = "RLE"
    /\ pc = "blob"
    /\ ~tampered
    /\ data = Rep(97, LongRun)
    /\ Len(blob) = 4
    /\ blob[2] = 255

\* C10: FindLongestMatch on "abcabcabc" returns (0,0) at position 0, (3,3) at
\* position 3 and (3,3) at position 6: of two equally long matches the nearer
\* one is reported.
C10_NearestMatch ==
    (codec = "LZ77" /\ pc = "matched" /\ data = abcabcabc) =>
        /\ mpos = 0 => mres = [Distance |-> 0, Length |-> 0]
        /\ mpos = 3 => mres = [Distance |-> 3, Length |-> 3]
        /\ mpos = 6 => mres = [Distance |-> 3, Length |-> 3]

\* The input bytes a token stands for: one for a literal, the copied bytes
\* and the literal after them for a match.
TokenSpan(t) == IF IsLiteral(t) THEN 1 ELSE t.Length + 1

RECURSIVE SpanSum(_, _, _)
SpanSum(tokens, lo, hi) ==
    IF lo > hi THEN 0
    ELSE IF lo = hi THEN TokenSpan(tokens[lo])
    ELSE LET mid == (lo + hi) \div 2
         IN  SpanSum(tokens, lo, mid) + SpanSum(tokens, mid + 1, hi)

ValidMatch(d, pos, distance, length) ==
    /\ 1 <= distance
    /\ distance <= Min(defaultWindowSize, pos)
    /\ MinMatchLength <= length
    /\ length <= Min(defaultBufferSize, Min(Len(d) - pos, distance))
    /\ \A k \in 0..(length - 1) : d[pos - distance + k + 1] = d[pos + k + 1]

\* C11: FindLongestMatch returns (0,0) or a pair with 1 <= distance <=
\* min(4096, pos), 3 <= length <= min(18, len(data) - pos, distance) and
\* data[pos-distance+k] = data[pos+k] for k < length; "abcdefab" at 6 gives
\* (0,0), "abcdefabc" at 6 gives (6,3); every match token Encode emits
\* satisfies the same bounds at the position it was emitted for.
C11_MatchBounds ==
    /\ (codec = "LZ77" /\ pc = "matched") =>
          /\ mres = NoMatch \/ ValidMatch(data, mpos, mres.Distance, mres.Length)
          /\ (data = abcdefab /\ mpos = 6) => mres = NoMatch
          /\ (data = abcdefabc /\ mpos = 6) => mres = [Distance |-> 6, Length |-> 3]
    /\ (codec = "LZ77" /\ pc = "blob" /\ ~tampered) =>
          LET tokens == Decode(blob).tokens
          IN  \A k \in 1..Len(tokens) :
                 \/ IsLiteral(tokens[k])
                 \/ ValidMatch(data, SpanSum(tokens, 1, k - 1),
                               tokens[k].Distance, tokens[k].Length)

C11_Witness ==
    /\ codec = "LZ77"
    /\ pc = "matched"
    /\ data = windowEdge
    /\ mpos = defaultWindowSize
    /\ mres = [Distance |-> defaultWindowSize, Length |-> MinMatchLength]

\* The tree Decompress builds from the frequency table a header carries.
RebuiltTree(d) ==
    buildTree(ReadFreqLoop(d, [offset |-> 1, freq |-> EmptyMap, err |-> NoError],
                           d[1]).freq)

\* C12: Huffman determinism: a second Compress call on the same input returns
\* the bytes the first returned, and the tree Decompress rebuilds from the
\* serialized frequency table is the tree Compress built (same shape, same
\* leaves), for every non-empty input.
C12_HuffmanDeterminism ==
    (codec = "Huffman" /\ pc = "blob" /\ ~tampered /\ Len(data) > 0) =>
        /\ err = NoError
        /\ HuffmanCompress(data).out = blob
        /\ RebuiltTree(blob) = buildTree(buildFrequencyTable(data))

\* C13 as stated: the Huffman output for "aaaaabbbbcccccddddd", header
\* included, is strictly shorter than the 19 input bytes.
C13_SkewedShrinks ==
    (codec = "Huffman" /\ pc = "blob" /\ ~tampered /\ data = skewed)
        => Len(blob) < Len(data)

\* C13 amended: the Huffman output for "aaaaabbbbcccccddddd" is 31 bytes, the
\* 1 + 5*4 + 5 header bytes and 5 payload bytes; the payload, header excluded,
\* is strictly shorter than the 19 input bytes.
C13_SkewedPayloadShrinks ==
    (codec = "Huffman" /\ pc = "blob" /\ ~tampered /\ data = skewed) =>
        /\ err = NoError
        /\ Len(blob) = 31
        /\ Len(blob) - (1 + 5 * blob[1] + 5) < Len(data)

C13_Witness ==
    /\ codec = "Huffman"
    /\ pc = "blob"
    /\ ~tampered
    /\ data = skewed
    /\ Len(data) = 19
    /\ blob[1] = 4
    /\ Len(blob) - 26 = 5

\* C14: on an instance that callers share and reuse, every call that has
\* returned returns the bytes and the error the same call returns on a fresh
\* instance, whatever calls came before it or ran beside it; its input buffer
\* holds what the caller passed in; the fields of the instance are those
\* NewCompressor set.
C14_Stateless ==
    /\ inst = NewCompressor(codec)
    /\ \A c \in Callers :
          /\ calls[c].buf = calls[c].given
          /\ calls[c].pc = "returned" =>
                LET r == FreshCall(codec, calls[c].op, calls[c].given, grow)
                IN  calls[c].out = r.out /\ calls[c].err = r.err

\* An LZ77 Compress call returned a match token while the other caller was in
\* the middle of its own LZ77 Compress call, after an earlier call.
C14_Witness ==
    /\ codec = "LZ77"
    /\ calls["a"].pc = "returned"
    /\ calls["a"].op = "Compress"
    /\ calls["a"].n > 0
    /\ Len(calls["a"].out) > 2 * Len(calls["a"].tokens)
    /\ calls["b"].pc = "running"
    /\ calls["b"].op = "Compress"
    /\ calls["b"].pos > 0
    /\ calls["b"].pos < Len(calls["b"].buf)

\* C15: RLE CompressWithStats returns the bytes Compress returns for the same
\* input, with OriginalSize the input length, CompressedSize the output
\* length and Algorithm the name of the codec; for "aaaaabbbbcccccddddd" the
\* compressed size is smaller than the original size.
C15_RLEWithStats ==
    (codec = "RLE" /\ pc = "blob" /\ ~tampered /\ stats # NoStats) =>
        /\ err = NoError
        /\ blob = RLECompress(data).out
        /\ blob = ExpectedRLE(data)
        /\ stats.OriginalSize = Len(data)
        /\ stats.CompressedSize = Len(blob)
        /\ stats.Algorithm = "Run-Length Encoding (RLE)"
        /\ data = skewed => stats.CompressedSize < stats.OriginalSize

C15_Witness ==
    /\ codec = "RLE"
    /\ pc = "blob"
    /\ ~tampered
    /\ data = skewed
    /\ stats.OriginalSize = 19
    /\ stats.CompressedSize = 8
    /\ stats.Algorithm = RLEName

\* C16: in TokensToData every match token contributes exactly length + 1
\* bytes, the copied bytes and then its literal, whatever the literal's value
\* and however many bytes were produced before: a successful Decompress
\* returns as many bytes as its tokens stand for, and the byte that ends a
\* match token's share is the token's literal.
C16_MatchTokenBytes ==
    (codec = "LZ77" /\ pc = "done" /\ err = NoError) =>
        LET tokens == Decode(blob).tokens
        IN  IF Len(result) # SpanSum(tokens, 1, Len(tokens)) THEN FALSE
            ELSE \A k \in 1..Len(tokens) :
                    IsLiteral(tokens[k])
                        \/ result[SpanSum(tokens, 1, k)] = tokens[k].Literal

\* The number of bytes the candidate starting at start has in common with
\* the bytes at pos, within the lookahead and without reaching pos: the first
\* offset where the two differ, or the limit.
CandidateLength(d, start, pos) ==
    LET lim == Min(Min(Len(d) - pos, defaultBufferSize), pos - start)
        stops == {k \in 0..(lim - 1) : d[start + k + 1] # d[pos + k + 1]}
                     \cup {lim}
    IN  CHOOSE n \in stops : \A k \in stops : n <= k

TokenCovers(d, p, t, last) ==
    /\ p < Len(d)
    /\ TokenSpan(t) >= 1
    /\ IF IsLiteral(t) THEN t.Literal = d[p + 1]
       ELSE /\ ValidMatch(d, p, t.Distance, t.Length)
            /\ IF p + t.Length < Len(d) THEN t.Literal = d[p + t.Length + 1]
               ELSE p + t.Length = Len(d) /\ t.Literal = 0 /\ last

\* C18: Encode ends with its position at or past the end of the input, every
\* token moves the position forward, and the tokens stand for the input in
\* order with no gap or overlap: a literal for 1 byte, a match for length
\* bytes and the byte after them; the total is len(data), or len(data) + 1
\* when the copied bytes of the last token end the input and its literal is
\* the sentinel 0.
C18_EncodeCovers ==
    (codec = "LZ77" /\ pc = "blob" /\ ~tampered) =>
        LET tokens == Decode(blob).tokens
            n      == Len(tokens)
            total  == SpanSum(tokens, 1, n)
            ends   == IF n = 0 THEN FALSE
                      ELSE /\ ~IsLiteral(tokens[n])
                           /\ SpanSum(tokens, 1, n - 1) + tokens[n].Length = Len(data)
        IN  /\ err = NoError
            /\ \A k \in 1..n :
                  TokenCovers(data, SpanSum(tokens, 1, k - 1), tokens[k], k = n)
            /\ total = IF ends THEN Len(data) + 1 ELSE Len(data)

\* The copied bytes of the last token end the input: the sentinel case.
C18_Witness ==
    /\ codec = "LZ77"
    /\ pc = "blob"
    /\ ~tampered
    /\ data = tenA
    /\ Decode(blob).tokens[Len(Decode(blob).tokens)] = Token(7, 3, 0)
    /\ SpanSum(Decode(blob).tokens, 1, Len(Decode(blob).tokens)) = Len(data) + 1

\* The length of the output before each token, as TokensToData goes
\* through the tokens.
TraceStep(acc, token, g) ==
    [st |-> TokenStep(acc.st, token, g),
     lens |-> Append(acc.lens, Len(acc.st.result))]

RECURSIVE TraceLoop(_, _, _, _, _)
TraceLoop(acc, tokens, lo, hi, g) ==
    IF lo > hi THEN acc
    ELSE IF lo = hi THEN TraceStep(acc, tokens[lo], g)
    ELSE LET mid == (lo + hi) \div 2
             a1  == TraceLoop(acc, tokens, lo, mid, g)
         IN  IF Done(a1) THEN TraceLoop(a1, tokens, mid + 1, hi, g) ELSE a1

ProducedBefore(tokens, g) ==
    TraceLoop([st |-> [result |-> <<>>, cap |-> 0, err |-> NoError], lens |-> <<>>],
              tokens, 1, Len(tokens), g).lens

\* C19: the copy of a match token whose distance is between 1 and the bytes
\* already produced never fails, whatever its length, and each copied byte
\* equals the byte distance positions before it in the output, also when
\* the length exceeds the distance.
C19_OverlappingCopy ==
    (codec = "LZ77" /\ pc = "done") =>
        /\ err # "invalid match: trying to copy from future position"
        /\ err \notin Panics
        /\ err = NoError =>
              LET tokens == Decode(blob).tokens
                  before == ProducedBefore(tokens, grow)
              IN  \A k \in 1..Len(tokens) :
                     IsLiteral(tokens[k]) \/
                        /\ tokens[k].Distance <= before[k]
                        /\ before[k] + tokens[k].Length <= Len(result)
                        /\ \A i \in 1..tokens[k].Length :
                              result[before[k] + i]
                                  = result[before[k] + i - tokens[k].Distance]

\* A copy longer than its distance succeeded.
C19_Witness ==
    /\ codec = "LZ77"
    /\ pc = "done"
    /\ err = NoError
    /\ \E k \in 1..Len(Decode(blob).tokens) :
          /\ Decode(blob).tokens[k].Distance >= 1
          /\ Decode(blob).tokens[k].Length > 2 * Decode(blob).tokens[k].Distance
    /\ Len(result) > 2 * MaxLen

\* The framing of an LZ77 stream, token by token: a flag 0x00 and one byte, or
\* a flag 0x01, a non-zero 2-byte distance, a length and a literal.  bad says
\* that a token began with another flag or was a match framing with
\* distance 0; a token cut short ends the walk.
LZ77FramingStep(d, st) ==
    IF st.bad \/ st.pos >= Len(d) THEN st
    ELSE IF d[st.pos + 1] = 0
    THEN (IF st.pos + 2 > Len(d) THEN [st EXCEPT !.pos = Len(d)]
          ELSE [st EXCEPT !.pos = @ + 2])
    ELSE IF d[st.pos + 1] # 1 THEN [st EXCEPT !.bad = TRUE]
    ELSE IF st.pos + 5 > Len(d) THEN [st EXCEPT !.pos = Len(d)]
    ELSE IF d[st.pos + 2] = 0 /\ d[st.pos + 3] = 0 THEN [st EXCEPT !.bad = TRUE]
    ELSE [st EXCEPT !.pos = @ + 5]

RECURSIVE LZ77FramingIter(_, _, _)
LZ77FramingIter(d, st, k) ==
    IF k <= 0 THEN st
    ELSE IF k = 1 THEN LZ77FramingStep(d, st)
    ELSE LET s1 == LZ77FramingIter(d, st, k \div 2)
         IN  IF Done(s1) THEN LZ77FramingIter(d, s1, k - k \div 2) ELSE s1

LZ77BadFraming(d) == LZ77FramingIter(d, [pos |-> 0, bad |-> FALSE], Len(d)).bad

\* C20: LZ77 Decompress returns an error for a stream holding a token whose
\* flag byte is neither 0x00 nor 0x01, or a match framing (flag 0x01) whose
\* distance is 0.
C20_FlagFraming ==
    (codec = "LZ77" /\ pc = "done" /\ LZ77BadFraming(blob)) => err # NoError

\* The shape of a tree: a node has no child or two, and a node with two
\* carries the sum of their frequencies.
RECURSIVE WellFormed(_)
WellFormed(n) ==
    \/ IsLeaf(n)
    \/ /\ n.Left # Nil
       /\ n.Right # Nil
       /\ n.Freq = n.Left[1].Freq + n.Right[1].Freq
       /\ WellFormed(n.Left[1])
       /\ WellFormed(n.Right[1])

RECURSIVE LeafCount(_)
LeafCount(n) ==
    IF IsLeaf(n) THEN 1
    ELSE (IF n.Left = Nil THEN 0 ELSE LeafCount(n.Left[1]))
             + (IF n.Right = Nil THEN 0 ELSE LeafCount(n.Right[1]))

RECURSIVE LeafSet(_)
LeafSet(n) ==
    IF IsLeaf(n) THEN {<<n.Char, n.Freq>>}
    ELSE (IF n.Left = Nil THEN {} ELSE LeafSet(n.Left[1]))
             \cup (IF n.Right = Nil THEN {} ELSE LeafSet(n.Right[1]))

RECURSIVE FreqTotal(_, _, _, _)
FreqTotal(freq, chars, lo, hi) ==
    IF lo > hi THEN 0
    ELSE IF lo = hi THEN freq[chars[lo]]
    ELSE LET mid == (lo + hi) \div 2
         IN  FreqTotal(freq, chars, lo, mid) + FreqTotal(freq, chars, mid + 1, hi)

TreeInvariant(freq, root) ==
    /\ root # Nil
    /\ WellFormed(root[1])
    /\ LeafCount(root[1]) = Cardinality(DOMAIN freq)
    /\ LeafSet(root[1]) = {<<c, freq[c]>> : c \in DOMAIN freq}
    /\ root[1].Freq = FreqTotal(freq, SortedChars(freq), 1, Cardinality(DOMAIN freq))
    /\ Cardinality(DOMAIN freq) = 1 => IsLeaf(root[1])

\* C21: for every non-empty frequency table buildTree returns a tree whose
\* nodes have zero or two children, holding each byte of the table in exactly
\* one leaf with its frequency, each internal node carrying the sum of its
\* children, the root the input length; a one-entry table gives one leaf.
\* The tables are those Compress builds from its input and those Decompress
\* reads from a header.
C21_TreeInvariant ==
    /\ (codec = "Huffman" /\ pc = "blob" /\ ~tampered /\ Len(data) > 0) =>
          LET freq == buildFrequencyTable(data)
              root == buildTree(freq)
          IN  TreeInvariant(freq, root) /\ root[1].Freq = Len(data)
    /\ (codec = "Huffman" /\ pc = "done" /\ Len(blob) > 0) =>
          LET tab == ReadFreqLoop(blob, [offset |-> 1, freq |-> EmptyMap,
                                         err |-> NoError], blob[1])
          IN  (tab.err = NoError /\ DOMAIN tab.freq # {})
                  => TreeInvariant(tab.freq, buildTree(tab.freq))

\* A tree with internal nodes, built for an input with four byte values.
C21_Witness ==
    /\ codec = "Huffman"
    /\ pc = "blob"
    /\ ~tampered
    /\ data = skewed
    /\ LeafCount(buildTree(buildFrequencyTable(data))[1]) = 4
    /\ buildTree(buildFrequencyTable(data))[1].Freq = 19

\* The node a path leads to from n: 0 goes left, 1 goes right; Nil when the
\* path leaves the tree.
RECURSIVE Follow(_, _, _)
Follow(n, code, k) ==
    IF k > Len(code) THEN <<n>>
    ELSE LET next == IF code[k] = 0 THEN n.Left ELSE n.Right
         IN  IF next = Nil THEN Nil ELSE Follow(next[1], code, k + 1)

IsPrefix(a, b) == Len(a) <= Len(b) /\ SubSeq(b, 1, Len(a)) = a

\* C22: for an input with two or more distinct byte values every distinct
\* byte has a non-empty code, the path from the root to its leaf (left 0,
\* right 1), and no code is a prefix of another; for one distinct byte value
\* the table is the single code "0", and Decompress of a stream whose table
\* has one entry returns that byte original-length times whatever payload
\* follows the header.
C22_CodeTable ==
    /\ (codec = "Huffman" /\ pc = "blob" /\ ~tampered /\ Len(data) > 0) =>
          LET freq  == buildFrequencyTable(data)
              root  == buildTree(freq)
              codes == buildCodeTable(root)
          IN  /\ DOMAIN codes = DOMAIN freq
              /\ IF Cardinality(DOMAIN freq) = 1
                 THEN codes = (data[1] :> <<0>>)
                 ELSE /\ \A c \in DOMAIN codes :
                            /\ Len(codes[c]) >= 1
                            /\ Follow(root[1], codes[c], 1) # Nil
                            /\ IsLeaf(Follow(root[1], codes[c], 1)[1])
                            /\ Follow(root[1], codes[c], 1)[1].Char = c
                      /\ \A c1, c2 \in DOMAIN codes :
                            c1 # c2 => ~IsPrefix(codes[c1], codes[c2])
    /\ (codec = "Huffman" /\ pc = "done" /\ Len(blob) > 0) =>
          (IF blob[1] # 1 THEN TRUE
           ELSE LET hdr == HuffmanReadHeader(blob)
                IN  hdr.err = NoError =>
                       /\ err = NoError
                       /\ result = Rep(blob[2], hdr.dataLen))

C22_Witness ==
    /\ codec = "Huffman"
    /\ pc = "blob"
    /\ ~tampered
    /\ data = skewed
    /\ \A c \in {97, 98, 99, 100} :
          Len(buildCodeTable(buildTree(buildFrequencyTable(data)))[c]) = 2

\* A one-entry stream whose payload was cut off decodes in full.
C22_SingleWitness ==
    /\ codec = "Huffman"
    /\ pc = "done"
    /\ tampered
    /\ data = Rep(97, MaxLen)
    /\ Len(blob) = 11
    /\ result = data

\* The codes of d[lo..hi] one after another, as one sequence of bits.
RECURSIVE CodeBits(_, _, _, _)
CodeBits(d, codes, lo, hi) ==
    IF lo > hi THEN <<>>
    ELSE IF lo = hi THEN codes[d[lo]]
    ELSE LET mid == (lo + hi) \div 2
         IN  CodeBits(d, codes, lo, mid) \o CodeBits(d, codes, mid + 1, hi)

BitAt(bs, i) == IF i <= Len(bs) THEN bs[i] ELSE 0

\* The j-th byte of a bit sequence packed most significant bit first, the
\* bits past its end taken as 0.
PackedByte(bs, j) ==
    LET b(k) == BitAt(bs, 8 * (j - 1) + k)
    IN  128 * b(1) + 64 * b(2) + 32 * b(3) + 16 * b(4)
            + 8 * b(5) + 4 * b(6) + 2 * b(7) + b(8)

CeilDiv8(n) == (n + 7) \div 8

Occurrences(d, c) == Cardinality({i \in 1..Len(d) : d[i] = c})

\* The layout of a Huffman stream out for the input d: the frequency
\* entries from offset 1, the input length, the padding byte, the payload.
HuffmanLayout(d, out) ==
    LET distinct == {d[i] : i \in 1..Len(d)}
        N        == Cardinality(distinct)
        codes    == buildCodeTable(buildTree(buildFrequencyTable(d)))
        bs       == CodeBits(d, codes, 1, Len(d))
        B        == Len(bs)
        entry(k) == 2 + 5 * (k - 1)
        tail     == 1 + 5 * N
    IN  /\ Len(out) = 1 + 5 * N + 5 + CeilDiv8(B)
        /\ \A k \in 1..N :
              /\ out[entry(k)] \in distinct
              /\ k < N => out[entry(k)] < out[entry(k + 1)]
              /\ out[entry(k) + 1] * 16777216 + out[entry(k) + 2] * 65536
                    + out[entry(k) + 3] * 256 + out[entry(k) + 4]
                    = Occurrences(d, out[entry(k)])
        /\ out[tail + 1] * 16777216 + out[tail + 2] * 65536
              + out[tail + 3] * 256 + out[tail + 4] = Len(d)
        /\ out[tail + 5] = (8 - (B % 8)) % 8
        /\ \A j \in 1..CeilDiv8(B) : out[tail + 5 + j] = PackedByte(bs, j)
        /\ \A i \in 1..Len(out) : out[i] \in 0..255

C24_DistinctCount ==
    (codec = "Huffman" /\ pc = "blob" /\ ~tampered /\ Len(data) > 0) =>
        LET distinct == {data[i] : i \in 1..Len(data)}
            bs       == CodeBits(data, buildCodeTable(buildTree(buildFrequencyTable(data))),
                                 1, Len(data))
            entries  == (Len(blob) - 1 - 5 - CeilDiv8(Len(bs))) \div 5
            tab      == ReadFreqLoop(blob, [offset |-> 1, freq |-> EmptyMap,
                                            err |-> NoError], blob[1])
        IN  /\ blob[1] = Cardinality(distinct)
            /\ blob[1] = entries
            /\ tab.err = NoError
            /\ tab.freq = buildFrequencyTable(data)

====
